---- MODULE Spec2Model ----
(***************************************************************************)
(* CopyQ monitor IPC: the length-framed message transport of ClientSocket,  *)
(* and the ClipboardMonitor's dispatch, change-deduplication and deferred   *)
(* write-back (src/common/clientsocket.h, src/app/client.cpp,               *)
(* src/app/clipboardmonitor.cpp).                                           *)
(*                                                                          *)
(* The specifications share the variables:                                 *)
(*   SpecFraming  the receiving ClientSocket fed a byte stream in chunks    *)
(*   SpecDedup    hasSameData applied to every pair of bounded snapshots    *)
(*   Spec         the ClipboardMonitor handling messages, the zero-delay    *)
(*                timer and the clipboard capability's change signal        *)
(*   SpecEndpoint one ClientSocket owned by a Client: connection state,     *)
(*                terminal signals, queued delivery, close and send         *)
(*   SpecTagging  onClipboardChanged over modes, windows and snapshots      *)
(*                with and without owner and window title                   *)
(*   SpecFlush    the monitor's write commands and its zero-delay timer,    *)
(*                the timer being served whenever it is active              *)
(*   SpecIds      ClientSockets constructed by several threads, and the     *)
(*                ids they are given                                        *)
(***************************************************************************)
EXTENDS Integers, Sequences, FiniteSets, TLC

VARIABLES
    \* ---- ClientSocket (receiving side) ----
    wire,                 \* bytes written by the peer, not yet read by the socket
    sentMessages,         \* the messages the peer serialized (history)
    m_message,            \* ClientSocket::m_message, the accumulation buffer
    m_hasMessageLength,   \* ClientSocket::m_hasMessageLength
    m_messageLength,      \* ClientSocket::m_messageLength
    received,             \* messageReceived(message, code) emissions, in order
    fed,                  \* number of bytes read from the stream so far (history)
    \* ---- ClientSocket owned by a Client ----
    connState,            \* Connecting, Ready, Closed or Failed
    signals,              \* disconnected / connectionFailed emissions, in order
    posted,               \* messageReceived emissions queued for the Client
    handled,              \* the events the Client's slots have run for, in order
    written,              \* frames written to the stream by sendMessage
    waiting,              \* a caller is blocked in waitForReadyRead
    closeRequested,       \* close() has been called (history)
    \* ---- socket ids of the process ----
    lastSocketId,         \* the id handed out last
    sockets,              \* every ClientSocket constructed so far, in order
    \* ---- hasSameData on its own ----
    cmp,                  \* the pair under comparison and the two results
    \* ---- ClipboardMonitor ----
    m_formats,            \* ClipboardMonitor::m_formats, the format allowlist
    m_lastData,           \* ClipboardMonitor::m_lastData, stored snapshot per mode
    m_newData,            \* ClipboardMonitor::m_newData, the pending writes
    timerActive,          \* m_timerSetNewClipboard.isActive()
    changedConnections,   \* connections changed(Mode) -> onClipboardChanged(Mode)
    batch,                \* per mode: commands handled since the last flush (history)
    observed,             \* per mode: snapshot reported by the last change event (history)
    exitStatus,           \* whether exit() was called, and with which code
    step                  \* the handler that ran last, its inputs and its effects

socketVars  == <<wire, sentMessages, m_message, m_hasMessageLength, m_messageLength,
                 received, fed>>
monitorVars == <<m_formats, m_lastData, m_newData, timerActive, changedConnections,
                 batch, observed, exitStatus, step>>
endpointVars == <<connState, signals, posted, handled, written, waiting,
                  closeRequested>>
idVars      == <<lastSocketId, sockets>>
vars        == <<socketVars, endpointVars, idVars, cmp, monitorVars>>

----------------------------------------------------------------------------
(* Bounds of the model *)

\* messages in one peer stream
MaxMessages == 2
\* bytes in one message payload
MaxPayloadLen == 1

----------------------------------------------------------------------------
(* Wire format: message := length(uint32) code(int32) payload *)

PayloadBytes == {0, 65}
MessageCodes == {1, -1}

Bytes(n) == UNION {[1..k -> PayloadBytes] : k \in 0..n}

WireMessages == [code : MessageCodes, payload : Bytes(MaxPayloadLen)]

\* big-endian 32-bit unsigned; a value of 2^31 or more is read as 2^31 - 1,
\* which is still more than any buffer of the model holds
WriteUInt32(n) == << (n \div 16777216) % 256, (n \div 65536) % 256,
                     (n \div 256) % 256, n % 256 >>

ReadUInt32(b) == IF b[1] >= 128 THEN 2147483647
                 ELSE b[1] * 16777216 + b[2] * 65536 + b[3] * 256 + b[4]

\* big-endian two's complement 32-bit signed: \div rounds down, so the bytes
\* of a negative number are those of n + 2^32
WriteInt32(n) == << (n \div 16777216) % 256, (n \div 65536) % 256,
                    (n \div 256) % 256, n % 256 >>

ReadInt32(b) == (IF b[1] >= 128 THEN b[1] - 256 ELSE b[1]) * 16777216
                + b[2] * 65536 + b[3] * 256 + b[4]

\* one message on the wire: the length prefix covers code + payload, not itself
Serialize(msg) ==
    WriteUInt32(4 + Len(msg.payload)) \o WriteInt32(msg.code) \o msg.payload

RECURSIVE SerializeAll(_)
SerializeAll(msgs) ==
    IF msgs = <<>> THEN <<>>
    ELSE Serialize(Head(msgs)) \o SerializeAll(Tail(msgs))

Drop(s, n) == SubSeq(s, n + 1, Len(s))

----------------------------------------------------------------------------
(* ClientSocket::onReadyRead: reassembly of messages from the buffer *)

\* The socket state as one record, threaded through the read loop.
SocketState(buf, hasLen, len, out) ==
    [buf |-> buf, hasLen |-> hasLen, len |-> len, out |-> out]

\* Mutant: decodes a message as soon as the length prefix is known, whether
\* or not the declared number of body bytes has arrived.
RECURSIVE ReadLoopEarly(_)
ReadLoopEarly(s) ==
    IF ~s.hasLen
    THEN IF Len(s.buf) < 4 THEN s
         ELSE ReadLoopEarly(SocketState(Drop(s.buf, 4), TRUE,
                                        ReadUInt32(SubSeq(s.buf, 1, 4)), s.out))
    ELSE IF Len(s.buf) < 4 THEN s
         ELSE LET n   == IF Len(s.buf) < s.len THEN Len(s.buf) ELSE s.len
                  msg == SubSeq(s.buf, 1, n)
              IN  ReadLoopEarly(SocketState(
                      Drop(s.buf, n), FALSE, s.len,
                      Append(s.out, [code    |-> ReadInt32(SubSeq(msg, 1, 4)),
                                     payload |-> Drop(msg, 4)])))

\* Mutant: emits at most one message per arrival of bytes, even when the
\* buffer already holds further complete messages.
ReadOnce(s) ==
    LET t == IF ~s.hasLen /\ Len(s.buf) >= 4
             THEN SocketState(Drop(s.buf, 4), TRUE,
                              ReadUInt32(SubSeq(s.buf, 1, 4)), s.out)
             ELSE s
    IN  IF t.hasLen /\ t.len >= 4 /\ Len(t.buf) >= t.len
        THEN LET msg == SubSeq(t.buf, 1, t.len)
             IN  SocketState(Drop(t.buf, t.len), FALSE, t.len,
                     Append(t.out, [code    |-> ReadInt32(SubSeq(msg, 1, 4)),
                                    payload |-> Drop(msg, 4)]))
        ELSE t

\* The read loop: read the 4-byte prefix once the buffer holds it; split off
\* one message once the buffer beyond the prefix holds the declared length;
\* keep the surplus as the start of the next message; repeat.
RECURSIVE ReadLoop(_)
ReadLoop(s) ==
    IF ~s.hasLen
    THEN IF Len(s.buf) < 4 THEN s
         ELSE ReadLoop(SocketState(Drop(s.buf, 4), TRUE,
                                   ReadUInt32(SubSeq(s.buf, 1, 4)), s.out))
    ELSE IF s.len < 4 \/ Len(s.buf) < s.len THEN s
         ELSE LET msg == SubSeq(s.buf, 1, s.len)
              IN  ReadLoop(SocketState(
                      Drop(s.buf, s.len), FALSE, s.len,
                      Append(s.out, [code    |-> ReadInt32(SubSeq(msg, 1, 4)),
                                     payload |-> Drop(msg, 4)])))

\* onReadyRead with `chunk` available on the stream.
OnReadyRead(chunk) ==
    LET s == ReadLoop(SocketState(m_message \o chunk, m_hasMessageLength,
                                  m_messageLength, received))
    IN  /\ m_message' = s.buf
        /\ m_hasMessageLength' = s.hasLen
        /\ m_messageLength' = s.len
        /\ received' = s.out

----------------------------------------------------------------------------
(* Clipboard snapshots: QVariantMap from format name to bytes *)

COPYQ_MIME_PREFIX == "application/x-copyq-"
mimeClipboardMode == "application/x-copyq-clipboard-mode"
mimeItemNotes     == "application/x-copyq-item-notes"
mimeOwner         == "application/x-copyq-owner"
mimeWindowTitle   == "application/x-copyq-owner-window-title"
mimeHtml          == "text/html"
mimeText          == "text/plain"

\* QString::startsWith
StartsWith(str, prefix) ==
    Len(str) >= Len(prefix) /\ SubSeq(str, 1, Len(prefix)) = prefix

\* QMap iterates its keys in ascending order; every format name of the model,
\* ascending.
FormatOrder == << mimeClipboardMode, mimeItemNotes, mimeOwner, mimeWindowTitle,
                  mimeHtml, mimeText >>

Range(seq) == {seq[i] : i \in DOMAIN seq}

\* the keys of a map, in iteration order
Keys(map) == SelectSeq(FormatOrder, LAMBDA f : f \in DOMAIN map)

EmptyMap == [f \in {} |-> ""]

\* QMap::insert(key, value): adds the entry or replaces its value
Insert(map, key, value) ==
    [f \in DOMAIN map \cup {key} |-> IF f = key THEN value ELSE map[f]]

\* QMap::value(key): a default-constructed (invalid) QVariant when absent,
\* which equals no byte value
NoValue == "<invalid QVariant>"
Value(map, key) == IF key \in DOMAIN map THEN map[key] ELSE NoValue

\* QVariant::toByteArray().isEmpty()
IsEmpty(v) == v = ""

----------------------------------------------------------------------------
(* hasSameData(data, lastData), clipboardmonitor.cpp *)

\* first loop: a non-metadata format of lastData that data lacks
RECURSIVE LostFormat(_, _)
LostFormat(keys, data) ==
    IF keys = <<>> THEN FALSE
    ELSE IF ~StartsWith(Head(keys), COPYQ_MIME_PREFIX) /\ Head(keys) \notin DOMAIN data
         THEN TRUE
         ELSE LostFormat(Tail(keys), data)

\* Mutant: the second loop compares empty values too.
RECURSIVE ChangedFormatAlsoEmpty(_, _, _)
ChangedFormatAlsoEmpty(keys, data, lastData) ==
    IF keys = <<>> THEN FALSE
    ELSE IF /\ ~StartsWith(Head(keys), COPYQ_MIME_PREFIX)
            /\ data[Head(keys)] # Value(lastData, Head(keys))
         THEN TRUE
         ELSE ChangedFormatAlsoEmpty(Tail(keys), data, lastData)

\* second loop: a non-metadata format of data with a non-empty value that
\* differs from lastData's
RECURSIVE ChangedFormat(_, _, _)
ChangedFormat(keys, data, lastData) ==
    IF keys = <<>> THEN FALSE
    ELSE IF /\ ~StartsWith(Head(keys), COPYQ_MIME_PREFIX)
            /\ ~IsEmpty(data[Head(keys)])
            /\ data[Head(keys)] # Value(lastData, Head(keys))
         THEN TRUE
         ELSE ChangedFormat(Tail(keys), data, lastData)

\* Mutant: the comparison does not skip the metadata formats.
hasSameDataWithMetadata(data, lastData) ==
    /\ \A f \in DOMAIN lastData : f \in DOMAIN data
    /\ \A f \in DOMAIN data : IsEmpty(data[f]) \/ data[f] = Value(lastData, f)

\* Mutant: the first loop (formats that disappeared) is missing.
hasSameDataNoLostCheck(data, lastData) ==
    ~ChangedFormat(Keys(data), data, lastData)

hasSameData(data, lastData) ==
    IF LostFormat(Keys(lastData), data) THEN FALSE
    ELSE IF ChangedFormat(Keys(data), data, lastData) THEN FALSE
    ELSE TRUE

----------------------------------------------------------------------------
(* Monitor protocol: modes, message codes, payload encodings *)

Clipboard  == "Clipboard"
Selection  == "Selection"
FindBuffer == "FindBuffer"
Modes      == {Clipboard, Selection, FindBuffer}
WriteModes == {Clipboard, Selection}

MonitorPing             == 1
MonitorPong             == 2
MonitorSettings         == 3
MonitorChangeClipboard  == 4
MonitorChangeSelection  == 5
MonitorClipboardChanged == 6
\* codes outside the monitor's protocol
OtherCodes == {MonitorPong, 99}

Message(code, payload) == [code |-> code, payload |-> payload]

\* A map on the wire: its entries in key order, each key followed by its value.
RECURSIVE SerializeEntries(_, _)
SerializeEntries(keys, map) ==
    IF keys = <<>> THEN <<>>
    ELSE <<Head(keys), map[Head(keys)]>> \o SerializeEntries(Tail(keys), map)

serializeData(data) == SerializeEntries(Keys(data), data)

\* Reading a map back: entry by entry; a stream that ends inside an entry
\* fails and leaves the entries read so far.
RECURSIVE ReadEntries(_, _)
ReadEntries(bytes, map) ==
    IF bytes = <<>> THEN [ok |-> TRUE, map |-> map]
    ELSE IF Len(bytes) = 1 THEN [ok |-> FALSE, map |-> map]
    ELSE ReadEntries(Drop(bytes, 2), Insert(map, bytes[1], bytes[2]))

\* deserializeData(&data, message): data as it is after the call
deserializeData(bytes) == ReadEntries(bytes, EmptyMap).map

\* QDataStream >> QVariantMap for the settings: Qt clears the map when the
\* stream fails inside it
ReadSettings(bytes) ==
    LET r == ReadEntries(bytes, EmptyMap)
    IN  IF r.ok THEN r.map ELSE EmptyMap

----------------------------------------------------------------------------
(* The clipboard capability (PlatformClipboard) and the window system *)

\* getCurrentWindow(): none, or a window with a title
NoWindow == "<no window>"
Windows(mode) == IF mode = Clipboard THEN {NoWindow, "Editor"} ELSE {"Editor"}

\* PlatformClipboard::data(mode, formats): the listed formats of the content
ClipboardData(content, formats) ==
    [f \in DOMAIN content \cap Range(formats) |-> content[f]]

----------------------------------------------------------------------------
(* ClipboardMonitor::onClipboardChanged *)

\* Mutant: the snapshot is stored as the capability reported it, without
\* the tags added for the message.
OnClipboardChangedStoresObserved(mode, data, lastData, win) ==
    IF hasSameData(data, lastData)
    THEN [out |-> <<>>, last |-> lastData]
    ELSE LET tagged == IF mode # Clipboard
                       THEN Insert(data, mimeClipboardMode,
                                   IF mode = Selection THEN "selection"
                                                       ELSE "find buffer")
                       ELSE data
             titled == IF /\ mimeOwner \notin DOMAIN tagged
                          /\ mimeWindowTitle \notin DOMAIN tagged
                          /\ win # NoWindow
                       THEN Insert(tagged, mimeWindowTitle, win)
                       ELSE tagged
         IN  [out  |-> << Message(MonitorClipboardChanged, serializeData(titled)) >>,
              last |-> data]

\* Mutant: the title of the current window is inserted whatever the snapshot
\* holds.
OnClipboardChangedAlwaysTitled(mode, data, lastData, win) ==
    IF hasSameData(data, lastData)
    THEN [out |-> <<>>, last |-> lastData]
    ELSE LET tagged == IF mode # Clipboard
                       THEN Insert(data, mimeClipboardMode,
                                   IF mode = Selection THEN "selection"
                                                       ELSE "find buffer")
                       ELSE data
             titled == IF win # NoWindow
                       THEN Insert(tagged, mimeWindowTitle, win)
                       ELSE tagged
         IN  [out  |-> << Message(MonitorClipboardChanged, serializeData(titled)) >>,
              last |-> titled]

\* One run of the slot for `mode`, the capability reporting `data`, the
\* current window `win`, the stored snapshot `lastData`: the messages sent and
\* the stored snapshot afterwards.
OnClipboardChanged(mode, data, lastData, win) ==
    IF hasSameData(data, lastData)
    THEN [out |-> <<>>, last |-> lastData]
    ELSE LET tagged == IF mode # Clipboard
                       THEN Insert(data, mimeClipboardMode,
                                   IF mode = Selection THEN "selection"
                                                       ELSE "find buffer")
                       ELSE data
             titled == IF /\ mimeOwner \notin DOMAIN tagged
                          /\ mimeWindowTitle \notin DOMAIN tagged
                          /\ win # NoWindow
                       THEN Insert(tagged, mimeWindowTitle, win)
                       ELSE tagged
         IN  [out  |-> << Message(MonitorClipboardChanged, serializeData(titled)) >>,
              last |-> titled]

\* Mutant: the slot runs for a change event whether or not it is connected.
EmitChangedUnconnected(connections, mode, data, lastData, win) ==
    LET one == OnClipboardChanged(mode, data, lastData, win)
    IN  [out |-> one.out, last |-> one.last, invoked |-> 1]

\* The capability emits changed(mode): the slot runs once per connection.
RECURSIVE EmitChanged(_, _, _, _, _)
EmitChanged(connections, mode, data, lastData, win) ==
    IF connections = 0
    THEN [out |-> <<>>, last |-> lastData, invoked |-> 0]
    ELSE LET one  == OnClipboardChanged(mode, data, lastData, win)
             rest == EmitChanged(connections - 1, mode, data, one.last, win)
         IN  [out |-> one.out \o rest.out, last |-> rest.last,
              invoked |-> rest.invoked + 1]

----------------------------------------------------------------------------
(* hasSameData, and the change handler, over every pair of bounded snapshots *)

CmpFormats == {mimeText, mimeHtml, mimeItemNotes}
CmpValues  == {"", "X", "Y"}
CmpSnapshots == UNION {[D -> CmpValues] : D \in SUBSET CmpFormats}

\* the clipboard mode holds lastData as its stored snapshot when the
\* capability reports data, the current window being win
InitCmp ==
    cmp \in [data : CmpSnapshots, lastData : CmpSnapshots, win : Windows(Clipboard),
             done : {FALSE}, same : {FALSE}, reverse : {FALSE},
             out : {<<>>}, stored : {EmptyMap}]

Compare ==
    /\ ~cmp.done
    /\ LET r == OnClipboardChanged(Clipboard, cmp.data, cmp.lastData, cmp.win)
       IN  cmp' = [cmp EXCEPT !.done = TRUE,
                              !.same = hasSameData(cmp.data, cmp.lastData),
                              !.reverse = hasSameData(cmp.lastData, cmp.data),
                              !.out = r.out,
                              !.stored = r.last]

----------------------------------------------------------------------------
(* The change handler over modes, windows, and snapshots with owner or title *)

TagFormats == {mimeText, mimeOwner, mimeWindowTitle}
TagValues  == {"", "X"}
TagSnapshots == UNION {[D -> TagValues] : D \in SUBSET TagFormats}
\* stored snapshots: none, a text, a text with the title added earlier
TagBaselines ==
    {EmptyMap, [f \in {mimeText} |-> "X"],
     [f \in {mimeText, mimeWindowTitle} |-> IF f = mimeText THEN "X" ELSE "Editor"]}

\* `mode` holds lastData as its stored snapshot when the capability reports
\* data, the current window being win
InitTag ==
    cmp \in [mode : Modes, data : TagSnapshots, lastData : TagBaselines,
             win : {NoWindow, "Editor"},
             done : {FALSE}, same : {FALSE}, reverse : {FALSE},
             out : {<<>>}, stored : {EmptyMap}]

Tag ==
    /\ ~cmp.done
    /\ LET r == OnClipboardChanged(cmp.mode, cmp.data, cmp.lastData, cmp.win)
       IN  cmp' = [cmp EXCEPT !.done = TRUE,
                              !.same = hasSameData(cmp.data, cmp.lastData),
                              !.reverse = hasSameData(cmp.lastData, cmp.data),
                              !.out = r.out,
                              !.stored = r.last]

----------------------------------------------------------------------------
(* Inputs of the monitor *)

TextX     == [f \in {mimeText} |-> "X"]
TextY     == [f \in {mimeText} |-> "Y"]
TextNote  == Insert(TextX, mimeItemNotes, "n")
TextHtml  == Insert(TextX, mimeHtml, "H")

\* what the clipboard can hold when the capability signals a change
Contents(mode) ==
    CASE mode = Clipboard  -> {TextX, TextNote, TextHtml}
      [] mode = Selection  -> {TextX}
      [] mode = FindBuffer -> {TextX}

\* payloads of ChangeClipboard / ChangeSelection; the last one ends inside
\* an entry
Truncated(bytes) == SubSeq(bytes, 1, Len(bytes) - 1)
CommandPayloads(messageCode) ==
    IF messageCode = MonitorChangeClipboard
    THEN {serializeData(TextX), serializeData(TextY),
          Truncated(serializeData(TextNote))}
    ELSE {serializeData(TextX)}

\* payloads of PushSettings: no "formats", an allowlist, a truncated one
FormatsAll == <<mimeText, mimeHtml, mimeItemNotes, mimeOwner>>
SettingsPayloads == {<<>>, <<"formats", FormatsAll>>, <<"formats">>}

\* History of the write commands handled for one mode since the last flush:
\* how many (0, 1, or 2 for "two or more"), the snapshot of the latest, and
\* whether an earlier one carried a different snapshot.
NoCommands == [count |-> 0, latest |-> EmptyMap, superseded |-> FALSE]
Commanded(b, data) ==
    [count      |-> IF b.count = 0 THEN 1 ELSE 2,
     latest     |-> data,
     superseded |-> b.count > 0 /\ (b.superseded \/ b.latest # data)]

----------------------------------------------------------------------------
(* The monitor's state after construction *)

NothingObserved == [seen |-> FALSE, data |-> EmptyMap]

NoStep ==
    [kind      |-> "constructed",
     code      |-> 0,               \* message code handled
     ok        |-> TRUE,            \* the payload decoded
     mode      |-> Clipboard,       \* mode of the change event
     data      |-> EmptyMap,        \* snapshot the capability reported
     repeat    |-> FALSE,           \* the same snapshot as the previous report
     invoked   |-> 0,               \* runs of onClipboardChanged
     batch     |-> [m \in WriteModes |-> NoCommands],   \* batch a flush found
     out       |-> <<>>,            \* messages sent
     calls     |-> <<>>,            \* setData calls made
     loaded    |-> FALSE,           \* loadSettings called
     connected |-> 0,               \* connections found by connect()
     scheduled |-> FALSE]           \* timer (re)started

\* exit(exitCode) leaves the event loop with that status
Running == [done |-> FALSE, code |-> 0]
Exit(exitCode) == [done |-> TRUE, code |-> exitCode]

InitMonitor ==
    /\ m_formats = <<>>
    /\ m_lastData = [m \in Modes |-> EmptyMap]
    /\ m_newData = EmptyMap
    /\ timerActive = FALSE
    /\ changedConnections = 0
    /\ batch = [m \in WriteModes |-> NoCommands]
    /\ observed = [m \in Modes |-> NothingObserved]
    /\ exitStatus = Running
    /\ step = NoStep

InitSocketIdle ==
    /\ wire = <<>>
    /\ sentMessages = <<>>
    /\ m_message = <<>>
    /\ m_hasMessageLength = FALSE
    /\ m_messageLength = 0
    /\ received = <<>>
    /\ fed = 0

InitEndpointIdle ==
    /\ connState = "Connecting"
    /\ signals = <<>>
    /\ posted = <<>>
    /\ handled = <<>>
    /\ written = <<>>
    /\ waiting = FALSE
    /\ closeRequested = FALSE

InitIdsIdle ==
    /\ lastSocketId = 0
    /\ sockets = <<>>

InitCmpIdle ==
    cmp = [data |-> EmptyMap, lastData |-> EmptyMap, win |-> NoWindow,
           done |-> TRUE, same |-> TRUE, reverse |-> TRUE,
           out |-> <<>>, stored |-> EmptyMap]

----------------------------------------------------------------------------
(* ClipboardMonitor::onMessageReceived *)

\* Mutant: connect() without Qt::UniqueConnection adds a connection each time.
ConnectAgain(connections) == connections + 1

\* connect(..., Qt::UniqueConnection): no second connection of the same
\* signal to the same slot
ConnectUnique(connections) ==
    IF connections >= 1 THEN connections ELSE connections + 1

\* Mutant: the Ping handler also starts the write-back timer.
HandlePingAndSchedule ==
    /\ timerActive' = TRUE
    /\ step' = [NoStep EXCEPT !.kind = "onMessageReceived", !.code = MonitorPing,
                              !.out = << Message(MonitorPong, <<>>) >>]
    /\ UNCHANGED <<exitStatus, m_formats, m_lastData, m_newData,
                   changedConnections, batch, observed>>

HandlePing ==
    /\ step' = [NoStep EXCEPT !.kind = "onMessageReceived", !.code = MonitorPing,
                              !.out = << Message(MonitorPong, <<>>) >>]
    /\ UNCHANGED <<exitStatus, m_formats, m_lastData, m_newData, timerActive,
                   changedConnections, batch, observed>>

HandleSettings(message) ==
    LET settings == ReadSettings(message)
    IN  /\ m_formats' = IF "formats" \in DOMAIN settings
                        THEN settings["formats"] ELSE m_formats
        /\ changedConnections' = ConnectUnique(changedConnections)
        /\ step' = [NoStep EXCEPT !.kind = "onMessageReceived",
                                  !.code = MonitorSettings,
                                  !.ok = ReadEntries(message, EmptyMap).ok,
                                  !.connected = changedConnections,
                                  !.loaded = TRUE]
        /\ UNCHANGED <<exitStatus, m_lastData, m_newData, timerActive, batch, observed>>

\* Mutant: a snapshot already pending for the mode is kept, the new one dropped.
HandleChangeKeepFirst(messageCode, message) ==
    LET data  == deserializeData(message)
        mode  == IF messageCode = MonitorChangeClipboard THEN Clipboard
                                                         ELSE Selection
    IN  /\ m_newData' = IF mode \in DOMAIN m_newData THEN m_newData
                        ELSE Insert(m_newData, mode, data)
        /\ timerActive' = TRUE
        /\ batch' = [batch EXCEPT ![mode] = Commanded(@, data)]
        /\ step' = [NoStep EXCEPT !.kind = "onMessageReceived",
                                  !.code = messageCode,
                                  !.ok = ReadEntries(message, EmptyMap).ok,
                                  !.mode = mode, !.data = data,
                                  !.scheduled = TRUE]
        /\ UNCHANGED <<exitStatus, m_formats, m_lastData, changedConnections, observed>>

\* Mutant: the handler writes the snapshot to the clipboard itself.
HandleChangeDirect(messageCode, message) ==
    LET data  == deserializeData(message)
        mode  == IF messageCode = MonitorChangeClipboard THEN Clipboard
                                                         ELSE Selection
    IN  /\ step' = [NoStep EXCEPT !.kind = "onMessageReceived",
                                  !.code = messageCode,
                                  !.ok = ReadEntries(message, EmptyMap).ok,
                                  !.mode = mode, !.data = data,
                                  !.calls = << [mode |-> mode, data |-> data,
                                                sync |-> FALSE,
                                                seen |-> ClipboardData(data, m_formats),
                                                invoked |-> 0,
                                                before |-> m_lastData[mode],
                                                out |-> <<>>] >>]
        /\ UNCHANGED <<exitStatus, m_formats, m_lastData, m_newData, timerActive,
                       changedConnections, batch, observed>>

HandleChange(messageCode, message) ==
    LET data  == deserializeData(message)
        mode  == IF messageCode = MonitorChangeClipboard THEN Clipboard
                                                         ELSE Selection
    IN  /\ m_newData' = Insert(m_newData, mode, data)
        /\ timerActive' = TRUE
        /\ batch' = [batch EXCEPT ![mode] = Commanded(@, data)]
        /\ step' = [NoStep EXCEPT !.kind = "onMessageReceived",
                                  !.code = messageCode,
                                  !.ok = ReadEntries(message, EmptyMap).ok,
                                  !.mode = mode, !.data = data,
                                  !.scheduled = TRUE]
        /\ UNCHANGED <<exitStatus, m_formats, m_lastData, changedConnections, observed>>

\* Mutant: an unknown message code ends the monitor.
HandleOtherExits(messageCode) ==
    /\ exitStatus' = Exit(1)
    /\ step' = [NoStep EXCEPT !.kind = "onMessageReceived", !.code = messageCode]
    /\ UNCHANGED <<m_formats, m_lastData, m_newData, timerActive,
                   changedConnections, batch, observed>>

\* the final else branch: the message is logged
HandleOther(messageCode) ==
    /\ step' = [NoStep EXCEPT !.kind = "onMessageReceived", !.code = messageCode]
    /\ UNCHANGED <<exitStatus, m_formats, m_lastData, m_newData, timerActive,
                   changedConnections, batch, observed>>

OnMessageReceived(message, messageCode) ==
    IF messageCode = MonitorPing THEN HandlePing
    ELSE IF messageCode = MonitorSettings THEN HandleSettings(message)
    ELSE IF messageCode = MonitorChangeClipboard
            \/ messageCode = MonitorChangeSelection
         THEN HandleChange(messageCode, message)
    ELSE HandleOther(messageCode)

----------------------------------------------------------------------------
(* ClipboardMonitor::onDisconnected, ClipboardMonitor::onConnectionFailed *)

\* Mutant: a lost connection is reported as a failure.
OnDisconnectedAsFailure ==
    /\ exitStatus' = Exit(1)
    /\ step' = [NoStep EXCEPT !.kind = "onDisconnected"]
    /\ UNCHANGED <<m_formats, m_lastData, m_newData, timerActive,
                   changedConnections, batch, observed>>

OnDisconnected ==
    /\ exitStatus' = Exit(0)
    /\ step' = [NoStep EXCEPT !.kind = "onDisconnected"]
    /\ UNCHANGED <<m_formats, m_lastData, m_newData, timerActive,
                   changedConnections, batch, observed>>

OnConnectionFailed ==
    /\ exitStatus' = Exit(1)
    /\ step' = [NoStep EXCEPT !.kind = "onConnectionFailed"]
    /\ UNCHANGED <<m_formats, m_lastData, m_newData, timerActive,
                   changedConnections, batch, observed>>

----------------------------------------------------------------------------
(* ClipboardMonitor::setNewClipboard, run by the zero-delay single-shot timer *)

\* The part of the monitor a flush works on.
FlushState(newData, lastData, seen, out, calls) ==
    [newData |-> newData, lastData |-> lastData, seen |-> seen,
     out |-> out, calls |-> calls]

\* QMap::take(key)
Take(map, key) == [k \in DOMAIN map \ {key} |-> map[k]]

\* Mutant: the flush also stores the written snapshot as the mode's last
\* seen data, before the capability can signal the change.
SetNewClipboardModeBaseline(s, mode, sync, win, formats, connections) ==
    IF mode \in DOMAIN s.newData
    THEN LET data == s.newData[mode]
             seen == ClipboardData(data, formats)
             echo == IF sync
                     THEN EmitChanged(connections, mode, seen, data, win)
                     ELSE [out |-> <<>>, last |-> data, invoked |-> 0]
         IN  FlushState(
                 Take(s.newData, mode),
                 [s.lastData EXCEPT ![mode] = echo.last],
                 IF echo.invoked > 0
                 THEN [s.seen EXCEPT ![mode] = [seen |-> TRUE, data |-> seen]]
                 ELSE s.seen,
                 s.out \o echo.out,
                 Append(s.calls, [mode |-> mode, data |-> data, sync |-> sync,
                                  seen |-> seen, invoked |-> echo.invoked,
                                  before |-> s.lastData[mode],
                                  out |-> echo.out]))
    ELSE s

\* Mutant: the pending snapshot is read with value(mode) and stays in the map.
SetNewClipboardModeKeep(s, mode, sync, win, formats, connections) ==
    IF mode \in DOMAIN s.newData
    THEN LET data == s.newData[mode]
             seen == ClipboardData(data, formats)
             echo == IF sync
                     THEN EmitChanged(connections, mode, seen, s.lastData[mode], win)
                     ELSE [out |-> <<>>, last |-> s.lastData[mode], invoked |-> 0]
         IN  FlushState(
                 s.newData,
                 [s.lastData EXCEPT ![mode] = echo.last],
                 IF echo.invoked > 0
                 THEN [s.seen EXCEPT ![mode] = [seen |-> TRUE, data |-> seen]]
                 ELSE s.seen,
                 s.out \o echo.out,
                 Append(s.calls, [mode |-> mode, data |-> data, sync |-> sync,
                                  seen |-> seen, invoked |-> echo.invoked,
                                  before |-> s.lastData[mode],
                                  out |-> echo.out]))
    ELSE s

\* setNewClipboard(mode): setData with the pending snapshot, if there is one.
\* With `sync` the capability emits changed(mode) before setData returns, and
\* the connected slot runs inside the call.
SetNewClipboardMode(s, mode, sync, win, formats, connections) ==
    IF mode \in DOMAIN s.newData
    THEN LET data == s.newData[mode]
             seen == ClipboardData(data, formats)
             echo == IF sync
                     THEN EmitChanged(connections, mode, seen, s.lastData[mode], win)
                     ELSE [out |-> <<>>, last |-> s.lastData[mode], invoked |-> 0]
         IN  FlushState(
                 Take(s.newData, mode),
                 [s.lastData EXCEPT ![mode] = echo.last],
                 IF echo.invoked > 0
                 THEN [s.seen EXCEPT ![mode] = [seen |-> TRUE, data |-> seen]]
                 ELSE s.seen,
                 s.out \o echo.out,
                 Append(s.calls, [mode |-> mode, data |-> data, sync |-> sync,
                                  seen |-> seen, invoked |-> echo.invoked,
                                  before |-> s.lastData[mode],
                                  out |-> echo.out]))
    ELSE s

\* Mutant: the flush serves the clipboard only.
SetNewClipboardClipboardOnly(active, s, syncClipboard, syncSelection, win, formats, connections) ==
    IF active THEN s
    ELSE SetNewClipboardMode(s, Clipboard, syncClipboard, win, formats, connections)

\* setNewClipboard(): nothing while the timer is active, else both modes
SetNewClipboard(active, s, syncClipboard, syncSelection, win, formats, connections) ==
    IF active THEN s
    ELSE SetNewClipboardMode(
             SetNewClipboardMode(s, Clipboard, syncClipboard, win, formats, connections),
             Selection, syncSelection, win, formats, connections)

\* Mutant: the slot runs while the timer still counts as active.
TimerTimeoutWhileActive(syncClipboard, syncSelection, win) ==
    /\ timerActive
    /\ timerActive' = FALSE
    /\ LET s == SetNewClipboard(timerActive,
                    FlushState(m_newData, m_lastData, observed, <<>>, <<>>),
                    syncClipboard, syncSelection, win, m_formats, changedConnections)
       IN  /\ m_newData' = s.newData
           /\ m_lastData' = s.lastData
           /\ observed' = s.seen
           /\ step' = [NoStep EXCEPT !.kind = "setNewClipboard",
                                     !.batch = batch,
                                     !.out = s.out, !.calls = s.calls]
    /\ batch' = [m \in WriteModes |-> NoCommands]
    /\ UNCHANGED <<exitStatus, m_formats, changedConnections>>

\* The timer fires: a single-shot timer is stopped before its slot runs.
TimerTimeout(syncClipboard, syncSelection, win) ==
    /\ timerActive
    /\ timerActive' = FALSE
    /\ LET s == SetNewClipboard(timerActive',
                    FlushState(m_newData, m_lastData, observed, <<>>, <<>>),
                    syncClipboard, syncSelection, win, m_formats, changedConnections)
       IN  /\ m_newData' = s.newData
           /\ m_lastData' = s.lastData
           /\ observed' = s.seen
           /\ step' = [NoStep EXCEPT !.kind = "setNewClipboard",
                                     !.batch = batch,
                                     !.out = s.out, !.calls = s.calls]
    /\ batch' = [m \in WriteModes |-> NoCommands]
    /\ UNCHANGED <<exitStatus, m_formats, changedConnections>>

----------------------------------------------------------------------------
(* The capability signals changed(mode) on its own *)

ClipboardChanged(mode, content, win) ==
    LET data == ClipboardData(content, m_formats)
        r    == EmitChanged(changedConnections, mode, data, m_lastData[mode], win)
    IN  /\ m_lastData' = [m_lastData EXCEPT ![mode] = r.last]
        /\ observed' = IF r.invoked > 0
                       THEN [observed EXCEPT ![mode] = [seen |-> TRUE, data |-> data]]
                       ELSE observed
        /\ step' = [NoStep EXCEPT !.kind = "changed",
                                  !.mode = mode, !.data = data,
                                  !.repeat = /\ observed[mode].seen
                                             /\ observed[mode].data = data,
                                  !.invoked = r.invoked,
                                  !.out = r.out]
        /\ UNCHANGED <<exitStatus, m_formats, m_newData, timerActive, changedConnections, batch>>

----------------------------------------------------------------------------
(* Specifications *)

Init == InitSocketIdle /\ InitEndpointIdle /\ InitIdsIdle /\ InitCmpIdle /\ InitMonitor

\* The event loop runs one handler at a time until exit() is called.
\* connectionFailed can only come from ClientSocket::start(), which the
\* constructor calls: before anything else was handled.
Next ==
    \/ /\ ~exitStatus.done
       /\ OnMessageReceived(<<>>, MonitorPing)
       /\ UNCHANGED <<socketVars, endpointVars, idVars, cmp>>
    \/ /\ ~exitStatus.done
       /\ \E message \in SettingsPayloads : OnMessageReceived(message, MonitorSettings)
       /\ UNCHANGED <<socketVars, endpointVars, idVars, cmp>>
    \/ /\ ~exitStatus.done
       /\ \E messageCode \in {MonitorChangeClipboard, MonitorChangeSelection} :
            \E message \in CommandPayloads(messageCode) :
              OnMessageReceived(message, messageCode)
       /\ UNCHANGED <<socketVars, endpointVars, idVars, cmp>>
    \/ /\ ~exitStatus.done
       /\ \E messageCode \in OtherCodes : OnMessageReceived(<<>>, messageCode)
       /\ UNCHANGED <<socketVars, endpointVars, idVars, cmp>>
    \/ /\ ~exitStatus.done
       /\ \E syncClipboard, syncSelection \in BOOLEAN : \E win \in Windows(Clipboard) :
            TimerTimeout(syncClipboard, syncSelection, win)
       /\ UNCHANGED <<socketVars, endpointVars, idVars, cmp>>
    \/ /\ ~exitStatus.done
       /\ \E mode \in Modes : \E content \in Contents(mode) : \E win \in Windows(mode) :
            ClipboardChanged(mode, content, win)
       /\ UNCHANGED <<socketVars, endpointVars, idVars, cmp>>
    \/ /\ ~exitStatus.done
       /\ OnDisconnected
       /\ UNCHANGED <<socketVars, endpointVars, idVars, cmp>>
    \/ /\ ~exitStatus.done
       /\ step.kind = "constructed"
       /\ OnConnectionFailed
       /\ UNCHANGED <<socketVars, endpointVars, idVars, cmp>>

Spec == Init /\ [][Next]_vars

\* hasSameData on every pair of snapshots
InitDedup == InitSocketIdle /\ InitEndpointIdle /\ InitIdsIdle /\ InitCmp /\ InitMonitor
NextDedup == Compare /\ UNCHANGED <<socketVars, endpointVars, idVars, monitorVars>>
SpecDedup == InitDedup /\ [][NextDedup]_vars

\* onClipboardChanged for every mode and window
InitTagging == InitSocketIdle /\ InitEndpointIdle /\ InitIdsIdle /\ InitTag /\ InitMonitor
NextTagging == Tag /\ UNCHANGED <<socketVars, endpointVars, idVars, monitorVars>>
SpecTagging == InitTagging /\ [][NextTagging]_vars

\* the receiving socket, fed the peer's stream in chunks of any size
InitFraming ==
    /\ sentMessages \in UNION {[1..k -> WireMessages] : k \in 0..MaxMessages}
    /\ wire = SerializeAll(sentMessages)
    /\ m_message = <<>>
    /\ m_hasMessageLength = FALSE
    /\ m_messageLength = 0
    /\ received = <<>>
    /\ fed = 0
    /\ InitEndpointIdle
    /\ InitIdsIdle
    /\ InitCmpIdle
    /\ InitMonitor

\* n bytes become available and readyRead is signalled
SocketReadyRead(n) ==
    /\ OnReadyRead(SubSeq(wire, 1, n))
    /\ wire' = Drop(wire, n)
    /\ fed' = fed + n
    /\ UNCHANGED sentMessages

NextFraming ==
    /\ \E n \in 1..Len(wire) : SocketReadyRead(n)
    /\ UNCHANGED <<endpointVars, idVars, cmp, monitorVars>>

SpecFraming == InitFraming /\ [][NextFraming]_vars

----------------------------------------------------------------------------
(* One ClientSocket owned by a Client (Client::startClientSocket) *)

\* sendMessage calls made while the endpoint is Ready
MaxSends == 1

\* the messages the peer writes, and the one the Client sends
EndpointMessages == {[code |-> 1, payload |-> <<>>], [code |-> -1, payload |-> <<65>>]}
SendMessages == {[code |-> 1, payload |-> <<65>>]}

\* An event as the Client's slot sees it. messageReceived is connected with
\* Qt::QueuedConnection: the slot runs when the Client's event loop gets to
\* the posted call. disconnected and connectionFailed are connected
\* directly: the slot runs inside the emit.
NoMessage == [code |-> 0, payload |-> <<>>]
Event(signal, message) ==
    [event |-> signal, message |-> message, afterClose |-> closeRequested]

\* the operation that ran last, and the endpoint as it was before it
EndpointStep(kind) ==
    [kind |-> kind, state |-> connState, written |-> Len(written),
     signals |-> Len(signals), handled |-> Len(handled)]

\* emit disconnected(this) / connectionFailed(this)
EmitTerminal(signal) ==
    /\ signals' = Append(signals, signal)
    /\ handled' = Append(handled, Event(signal, NoMessage))

\* startClientSocket: the socket is created, its signals connected, and
\* start() either finds the connection made or emits connectionFailed
StartClientSocket(connected) ==
    /\ connState = "Connecting"
    /\ IF connected
       THEN /\ connState' = "Ready"
            /\ UNCHANGED <<signals, handled>>
       ELSE /\ connState' = "Failed"
            /\ EmitTerminal("connectionFailed")
    /\ step' = EndpointStep("start")
    /\ UNCHANGED <<socketVars, posted, written, waiting, closeRequested>>

\* readyRead with n bytes available: reassembled messages are posted to the
\* Client, and a caller blocked in waitForReadyRead returns once there is one
EndpointReadyRead(n) ==
    /\ connState = "Ready"
    /\ SocketReadyRead(n)
    /\ posted' = posted \o SubSeq(received', Len(received) + 1, Len(received'))
    /\ waiting' = (waiting /\ Len(received') = Len(received))
    /\ step' = EndpointStep("readyRead")
    /\ UNCHANGED <<connState, signals, handled, written, closeRequested>>

\* the Client's event loop delivers the oldest posted messageReceived
DeliverMessage ==
    /\ posted # <<>>
    /\ ~waiting
    /\ handled' = Append(handled, Event("messageReceived", Head(posted)))
    /\ posted' = Tail(posted)
    /\ step' = EndpointStep("onMessageReceived")
    /\ UNCHANGED <<socketVars, connState, signals, written, waiting, closeRequested>>

\* Mutant: the bytes of an incomplete frame stay in the buffer.
StreamEndsKeepingBuffer ==
    /\ connState = "Ready"
    /\ connState' = "Closed"
    /\ EmitTerminal("disconnected")
    /\ wire' = <<>>
    /\ waiting' = FALSE
    /\ step' = EndpointStep("streamEnds")
    /\ UNCHANGED <<sentMessages, received, fed, posted, written, closeRequested,
                   m_message, m_hasMessageLength, m_messageLength>>

\* The peer closes or the stream fails (onStateChanged, onError): the
\* endpoint is Closed, what was read of an incomplete frame is dropped,
\* disconnected is emitted and a blocked waiter returns.
StreamEnds ==
    /\ connState = "Ready"
    /\ connState' = "Closed"
    /\ EmitTerminal("disconnected")
    /\ m_message' = <<>>
    /\ m_hasMessageLength' = FALSE
    /\ m_messageLength' = 0
    /\ wire' = <<>>
    /\ waiting' = FALSE
    /\ step' = EndpointStep("streamEnds")
    /\ UNCHANGED <<sentMessages, received, fed, posted, written, closeRequested>>

\* Mutant: close() emits disconnected whatever the state of the endpoint.
CloseEmittingAgain ==
    /\ connState # "Connecting"
    /\ closeRequested' = TRUE
    /\ connState' = "Closed"
    /\ EmitTerminal("disconnected")
    /\ m_message' = <<>>
    /\ m_hasMessageLength' = FALSE
    /\ m_messageLength' = 0
    /\ wire' = <<>>
    /\ waiting' = FALSE
    /\ step' = EndpointStep("close")
    /\ UNCHANGED <<sentMessages, received, fed, posted, written>>

\* close(): a Ready endpoint becomes Closed as when the stream ends; on a
\* Closed or Failed endpoint nothing happens. The Client cannot call it while
\* Connecting: startClientSocket creates and starts the socket in one call.
Close ==
    /\ connState # "Connecting"
    /\ closeRequested' = TRUE
    /\ IF connState = "Ready"
       THEN /\ connState' = "Closed"
            /\ EmitTerminal("disconnected")
            /\ m_message' = <<>>
            /\ m_hasMessageLength' = FALSE
            /\ m_messageLength' = 0
            /\ wire' = <<>>
            /\ waiting' = FALSE
       ELSE UNCHANGED <<connState, signals, handled, m_message, m_hasMessageLength,
                        m_messageLength, wire, waiting>>
    /\ step' = EndpointStep("close")
    /\ UNCHANGED <<sentMessages, received, fed, posted, written>>

\* Mutant: sendMessage writes the frame without looking at the state.
SendMessageUnchecked(msg) ==
    /\ connState # "Connecting"
    /\ ~waiting
    /\ Len(written) < MaxSends
    /\ written' = Append(written, Serialize(msg))
    /\ step' = EndpointStep("sendMessage")
    /\ UNCHANGED <<socketVars, connState, signals, posted, handled, waiting,
                   closeRequested>>

\* Client::sendMessage -> ClientSocket::sendMessage: the frame is written
\* while the endpoint is Ready, and nothing is done once it is Closed or
\* Failed.
SendMessage(msg) ==
    /\ connState # "Connecting"
    /\ ~waiting
    /\ IF connState = "Ready"
       THEN /\ Len(written) < MaxSends
            /\ written' = Append(written, Serialize(msg))
       ELSE UNCHANGED written
    /\ step' = EndpointStep("sendMessage")
    /\ UNCHANGED <<socketVars, connState, signals, posted, handled, waiting,
                   closeRequested>>

\* Client::waitForReadyRead -> ClientSocket::waitForReadyRead: the caller
\* blocks until a message is reassembled or the connection is closed
WaitForReadyRead ==
    /\ connState = "Ready"
    /\ ~waiting
    /\ waiting' = TRUE
    /\ step' = EndpointStep("waitForReadyRead")
    /\ UNCHANGED <<socketVars, connState, signals, posted, handled, written,
                   closeRequested>>

\* isClosed()
IsClosed == connState \in {"Closed", "Failed"}

InitEndpoint ==
    /\ sentMessages \in UNION {[1..k -> EndpointMessages] : k \in 0..MaxMessages}
    /\ wire = SerializeAll(sentMessages)
    /\ m_message = <<>>
    /\ m_hasMessageLength = FALSE
    /\ m_messageLength = 0
    /\ received = <<>>
    /\ fed = 0
    /\ InitEndpointIdle
    /\ InitIdsIdle
    /\ InitCmpIdle
    /\ InitMonitor

monitorData == <<m_formats, m_lastData, m_newData, timerActive, changedConnections,
                 batch, observed, exitStatus>>

NextEndpoint ==
    \/ /\ \E connected \in BOOLEAN : StartClientSocket(connected)
       /\ UNCHANGED <<idVars, cmp, monitorData>>
    \/ /\ \E n \in 1..Len(wire) : EndpointReadyRead(n)
       /\ UNCHANGED <<idVars, cmp, monitorData>>
    \/ /\ DeliverMessage
       /\ UNCHANGED <<idVars, cmp, monitorData>>
    \/ /\ StreamEnds
       /\ UNCHANGED <<idVars, cmp, monitorData>>
    \/ /\ Close
       /\ UNCHANGED <<idVars, cmp, monitorData>>
    \/ /\ \E msg \in SendMessages : SendMessage(msg)
       /\ UNCHANGED <<idVars, cmp, monitorData>>
    \/ /\ WaitForReadyRead
       /\ UNCHANGED <<idVars, cmp, monitorData>>

SpecEndpoint == InitEndpoint /\ [][NextEndpoint]_vars

----------------------------------------------------------------------------
(* Socket ids: ClientSocket::id(), m_socketId *)

\* ClientSockets constructed in one process
MaxSockets == 3

Threads == {"main", "worker"}
\* ClientSocket(), ClientSocket(serverName, parent), ClientSocket(socket, parent)
Constructors == {"default", "connect", "adopt"}

\* Mutant: the id is the lowest number no open socket holds, as a descriptor
\* of the operating system would be.
LowestFreeSocketId(last, all) ==
    LET open == {all[i].id : i \in {j \in DOMAIN all :
                                       all[j].state \in {"Connecting", "Ready"}}}
    IN  CHOOSE n \in 1..(Len(all) + 1) :
            /\ n \notin open
            /\ \A k \in 1..(n - 1) : k \in open

\* the id for the socket under construction: one more than the last one,
\* taken in one step whichever thread constructs
NextSocketId(last, all) == last + 1

ConstructSocket(thread, constructor) ==
    /\ Len(sockets) < MaxSockets
    /\ lastSocketId' = NextSocketId(lastSocketId, sockets)
    /\ sockets' = Append(sockets, [id |-> lastSocketId', thread |-> thread,
                                   constructor |-> constructor,
                                   state |-> "Connecting"])

\* socket i becomes Ready or Failed, or a Ready one is Closed; its id stays
SocketMoves(i, state) ==
    /\ \/ sockets[i].state = "Connecting" /\ state \in {"Ready", "Failed"}
       \/ sockets[i].state = "Ready" /\ state = "Closed"
    /\ sockets' = [sockets EXCEPT ![i].state = state]
    /\ UNCHANGED lastSocketId

InitIds == InitSocketIdle /\ InitEndpointIdle /\ InitIdsIdle /\ InitCmpIdle /\ InitMonitor

NextIds ==
    \/ /\ \E thread \in Threads : \E constructor \in Constructors :
            ConstructSocket(thread, constructor)
       /\ UNCHANGED <<socketVars, endpointVars, cmp, monitorVars>>
    \/ /\ \E i \in DOMAIN sockets : \E state \in {"Ready", "Failed", "Closed"} :
            SocketMoves(i, state)
       /\ UNCHANGED <<socketVars, endpointVars, cmp, monitorVars>>

SpecIds == InitIds /\ [][NextIds]_vars

----------------------------------------------------------------------------
(* Write commands and the zero-delay timer, the event loop serving the timer *)

\* m_timerSetNewClipboard times out
FlushTimerFires ==
    /\ ~exitStatus.done
    /\ \E syncClipboard, syncSelection \in BOOLEAN : \E win \in Windows(Clipboard) :
         TimerTimeout(syncClipboard, syncSelection, win)
    /\ UNCHANGED <<socketVars, endpointVars, idVars, cmp>>

NextFlush ==
    \/ /\ ~exitStatus.done
       /\ \E messageCode \in {MonitorChangeClipboard, MonitorChangeSelection} :
            \E message \in CommandPayloads(messageCode) :
              OnMessageReceived(message, messageCode)
       /\ UNCHANGED <<socketVars, endpointVars, idVars, cmp>>
    \/ /\ ~exitStatus.done
       /\ OnMessageReceived(<<>>, MonitorPing)
       /\ UNCHANGED <<socketVars, endpointVars, idVars, cmp>>
    \/ FlushTimerFires
    \/ /\ ~exitStatus.done
       /\ OnDisconnected
       /\ UNCHANGED <<socketVars, endpointVars, idVars, cmp>>

\* An active timer with interval 0 is due on the next turn of the event loop,
\* and restarting it leaves it active: the loop cannot pass it over for ever.
SpecFlush == Init /\ [][NextFlush]_vars /\ WF_vars(FlushTimerFires)

----------------------------------------------------------------------------
(* Properties of the framed transport (SpecFraming) *)

\* byte offset in the peer's stream at which its k-th message ends
EndOffset(k) == Len(SerializeAll(SubSeq(sentMessages, 1, k)))

\* C1: Framing round trip. Whatever the partition of the peer's byte stream
\* into chunks, the messages emitted so far are the first messages the peer
\* serialized, in order, none lost and none twice; once the whole stream has
\* been read they are exactly the peer's messages, empty payloads included.
FramingRoundTrip ==
    /\ Len(received) <= Len(sentMessages)
    /\ received = SubSeq(sentMessages, 1, Len(received))
    /\ wire = <<>> => received = sentMessages

\* two messages, the first with an empty payload, the second code 1 with
\* payload "A", were read to the end of the stream
FramingRoundTripWitness ==
    /\ wire = <<>>
    /\ fed = 17
    /\ received = << [code |-> -1, payload |-> <<>>],
                     [code |-> 1, payload |-> <<65>>] >>

\* C2: No early decode. Every emitted message's frame (prefix and declared
\* body) has been read in full; the bytes read beyond the last emitted frame
\* are all kept: as a partial prefix, or, once the prefix is read, as the
\* remembered length plus the body bytes so far, fewer than declared.
NoEarlyDecode ==
    LET stream == SerializeAll(sentMessages)
        done   == EndOffset(Len(received))
    IN  /\ Len(received) <= Len(sentMessages)
        /\ done <= fed
        /\ IF m_hasMessageLength
           THEN /\ done + 4 <= fed
                /\ m_messageLength = ReadUInt32(SubSeq(stream, done + 1, done + 4))
                /\ m_message = SubSeq(stream, done + 5, fed)
                /\ Len(m_message) < m_messageLength
           ELSE /\ m_message = SubSeq(stream, done + 1, fed)
                /\ Len(m_message) < 4

\* after one message was emitted, the prefix of the next declares 5 bytes and
\* only some of them have arrived
NoEarlyDecodeWitness ==
    /\ Len(received) = 1
    /\ m_hasMessageLength
    /\ m_messageLength = 5
    /\ Len(m_message) \in 1..4
    /\ wire # <<>>

----------------------------------------------------------------------------
(* Properties of the change detection (SpecDedup) *)

IsMetadata(format) == StartsWith(format, COPYQ_MIME_PREFIX)

\* the non-metadata part of a snapshot
Content(map) == [f \in {g \in DOMAIN map : ~IsMetadata(g)} |-> map[f]]

\* the duplicate condition as the specification states it
DuplicateBySpec(data, lastData) ==
    /\ \A f \in DOMAIN lastData : ~IsMetadata(f) => f \in DOMAIN data
    /\ \A f \in DOMAIN data :
          ~IsMetadata(f) /\ data[f] # "" => f \in DOMAIN lastData /\ data[f] = lastData[f]

\* C4: hasSameData(data, lastData) is true exactly when every non-metadata
\* format of lastData is a key of data and every non-metadata format of data
\* with a non-empty value has the same value in lastData.
DedupMatchesSpecification ==
    cmp.done => (cmp.same <=> DuplicateBySpec(cmp.data, cmp.lastData))

\* a duplicate although the snapshots differ: the text went from "X" to empty
\* and a note was added
DedupMatchesSpecificationWitness ==
    /\ cmp.done
    /\ cmp.same
    /\ cmp.lastData = [f \in {mimeText, mimeHtml} |-> IF f = mimeText THEN "X" ELSE ""]
    /\ cmp.data = [f \in {mimeText, mimeHtml, mimeItemNotes} |->
                      IF f = mimeItemNotes THEN "Y" ELSE ""]

\* C6: two snapshots that agree on every non-metadata format and differ only
\* in metadata keys are duplicates in both directions, and the change handler
\* sends nothing and keeps the stored snapshot.
MetadataOnlyDifferenceIsDuplicate ==
    cmp.done /\ Content(cmp.data) = Content(cmp.lastData)
        => /\ cmp.same
           /\ cmp.reverse
           /\ cmp.out = <<>>
           /\ cmp.stored = cmp.lastData

\* {text: "X"} stored, {text: "X", notes: "Y"} reported
MetadataOnlyDifferenceWitness ==
    /\ cmp.done
    /\ cmp.lastData = [f \in {mimeText} |-> "X"]
    /\ cmp.data = [f \in {mimeText, mimeItemNotes} |-> IF f = mimeText THEN "X" ELSE "Y"]
    /\ cmp.out = <<>>

\* C7: when the stored snapshot has a non-metadata format that the reported
\* one lacks, the change is not a duplicate: one ClipboardChanged message is
\* sent, carrying the snapshot that replaces the stored one, whose content is
\* the reported content.
DisappearanceIsNotDuplicate ==
    cmp.done /\ (\E f \in DOMAIN cmp.lastData : ~IsMetadata(f) /\ f \notin DOMAIN cmp.data)
        => /\ ~cmp.same
           /\ Len(cmp.out) = 1
           /\ cmp.out[1].code = MonitorClipboardChanged
           /\ deserializeData(cmp.out[1].payload) = cmp.stored
           /\ Content(cmp.stored) = Content(cmp.data)
           /\ cmp.stored # cmp.lastData

\* {text: "X", html: "Y"} stored, {text: "X"} reported: html disappeared while
\* every remaining value is unchanged
DisappearanceWitness ==
    /\ cmp.done
    /\ cmp.lastData = [f \in {mimeText, mimeHtml} |-> IF f = mimeText THEN "X" ELSE "Y"]
    /\ cmp.data = [f \in {mimeText} |-> "X"]
    /\ Len(cmp.out) = 1

----------------------------------------------------------------------------
(* Properties of the monitor (Spec) *)

IsFlush    == step.kind = "setNewClipboard"
IsChanged  == step.kind = "changed"
IsMessage(code) == step.kind = "onMessageReceived" /\ step.code = code
IsChangeCommand ==
    IsMessage(MonitorChangeClipboard) \/ IsMessage(MonitorChangeSelection)

\* the setData calls of the last step that were echoed at once: the capability
\* signalled the change of the written mode, the slot ran, and the capability
\* reported the snapshot just written
Echoes == {i \in DOMAIN step.calls :
              /\ step.calls[i].sync
              /\ step.calls[i].invoked > 0
              /\ step.calls[i].seen = step.calls[i].data}

DedupIdempotence ==
    /\ IsChanged /\ step.repeat => step.out = <<>>
    /\ \A mode \in Modes :
          observed[mode].seen => DuplicateBySpec(observed[mode].data, m_lastData[mode])

\* the selection reported {text: "X"} a second time, the stored snapshot
\* carrying the mode tag and the window title added the first time
DedupIdempotenceWitness ==
    /\ IsChanged
    /\ step.repeat
    /\ step.invoked = 1
    /\ step.mode = Selection
    /\ step.data = TextX
    /\ m_lastData[Selection] =
          Insert(Insert(TextX, mimeClipboardMode, "selection"), mimeWindowTitle, "Editor")

\* the setData calls of the last step for one mode
CallsFor(mode) == SelectSeq(step.calls, LAMBDA c : c.mode = mode)

\* C8: Coalescing, last write wins. A flush that finds two or more commands
\* handled for a mode since the previous flush calls setData for that mode
\* exactly once, with the snapshot of the latest command.
CoalescingLastWriteWins ==
    IsFlush =>
        \A mode \in WriteModes :
            step.batch[mode].count >= 2 =>
                /\ Len(CallsFor(mode)) = 1
                /\ CallsFor(mode)[1].data = step.batch[mode].latest

\* two ChangeClipboard commands with different snapshots, then the flush
\* wrote {text: "Y"}
CoalescingWitness ==
    /\ IsFlush
    /\ step.batch[Clipboard].count = 2
    /\ step.batch[Clipboard].superseded
    /\ step.batch[Clipboard].latest = TextY
    /\ Len(CallsFor(Clipboard)) = 1

\* C9: Subscription is idempotent. The changed signal is never connected to
\* the slot more than once, it is connected after every PushSettings, and a
\* change event runs the slot once per connection, so at most once, and sends
\* at most one ClipboardChanged.
SubscriptionIsIdempotent ==
    /\ changedConnections <= 1
    /\ IsMessage(MonitorSettings) => changedConnections = 1
    /\ IsChanged => /\ step.invoked = changedConnections
                    /\ Len(step.out) <= 1
    /\ IsFlush => \A i \in DOMAIN step.calls :
                      /\ step.calls[i].invoked <= 1
                      /\ Len(step.calls[i].out) <= 1

\* a PushSettings found the connection of an earlier one and left one
SubscriptionWitness ==
    /\ IsMessage(MonitorSettings)
    /\ step.connected = 1
    /\ changedConnections = 1

\* C10: setData is called by the flush only. Handling a message or a change
\* event makes no setData call; a change command records its snapshot as the
\* pending write of its mode and starts the timer.
SetDataOnlyFromFlush ==
    /\ ~IsFlush => step.calls = <<>>
    /\ IsChangeCommand =>
          /\ step.mode \in DOMAIN m_newData
          /\ m_newData[step.mode] = step.data
          /\ timerActive

\* ChangeClipboard {text: "Y"} was handled: pending, timer running, no call
SetDataOnlyFromFlushWitness ==
    /\ IsMessage(MonitorChangeClipboard)
    /\ step.data = TextY
    /\ m_newData[Clipboard] = TextY
    /\ timerActive
    /\ step.calls = <<>>

----------------------------------------------------------------------------
(* Payloads that do not decode *)

\* what the monitor keeps apart from its histories
monitorState == <<m_formats, m_lastData, m_newData, timerActive,
                  changedConnections, exitStatus>>

\* C13: a PushSettings whose payload does not decode leaves the allowlist as
\* it was, creates no subscription to change events, and does not reach
\* loadSettings; the monitor keeps running.
MalformedSettingsChangeNothing ==
    [][IsMessage(MonitorSettings)' /\ ~step'.ok =>
          /\ m_formats' = m_formats
          /\ changedConnections' = changedConnections
          /\ ~step'.loaded
          /\ ~exitStatus'.done]_vars

\* the snapshots a well-formed command payload can carry
WellFormedSnapshots ==
    {deserializeData(p) :
        p \in {q \in UNION {CommandPayloads(c) : c \in {MonitorChangeClipboard,
                                                        MonitorChangeSelection}} :
                  ReadEntries(q, EmptyMap).ok}}

\* C14: a ChangeClipboard or ChangeSelection whose payload does not decode
\* adds or replaces nothing in the pending writes and schedules no flush, and
\* no flush ever calls setData with a snapshot only a malformed payload
\* yields; the monitor keeps running.
MalformedCommandIsSkipped ==
    /\ [][IsChangeCommand' /\ ~step'.ok =>
             /\ m_newData' = m_newData
             /\ timerActive' = timerActive
             /\ ~step'.scheduled
             /\ ~exitStatus'.done]_vars
    /\ [](IsFlush =>
             \A i \in DOMAIN step.calls : step.calls[i].data \in WellFormedSnapshots)

----------------------------------------------------------------------------
(* Leaving the event loop *)

\* C16: the monitor exits with status 0 when it handles Disconnected, with
\* status 1 when it handles ConnectFailed, and on no other event.
ExitStatusByTerminalEvent ==
    /\ exitStatus.done <=> step.kind \in {"onDisconnected", "onConnectionFailed"}
    /\ step.kind = "onDisconnected" => exitStatus = Exit(0)
    /\ step.kind = "onConnectionFailed" => exitStatus = Exit(1)

\* the connection is lost with a subscription made and a write pending
ExitStatusWitness ==
    /\ step.kind = "onDisconnected"
    /\ exitStatus = Exit(0)
    /\ changedConnections = 1
    /\ m_newData # EmptyMap

----------------------------------------------------------------------------
(* Messages without effect on the monitor's state *)

\* C17: a Ping is answered with exactly one Pong with an empty payload, and
\* changes neither the stored snapshots, the pending writes, the allowlist,
\* the subscription nor the flush timer.
PingRepliesPongOnly ==
    [][IsMessage(MonitorPing)' =>
          /\ step'.out = << Message(MonitorPong, <<>>) >>
          /\ step'.calls = <<>>
          /\ UNCHANGED monitorState]_vars

\* a Ping handled with a subscription made and no flush scheduled
PingWitness ==
    /\ IsMessage(MonitorPing)
    /\ step.out = << Message(MonitorPong, <<>>) >>
    /\ changedConnections = 1
    /\ m_formats # <<>>
    /\ ~timerActive

\* C18: a message whose code the monitor does not know is answered with
\* nothing, changes no state, and neither closes the connection nor ends the
\* monitor.
UnknownCodeIsIgnored ==
    [][step'.kind = "onMessageReceived" /\ step'.code \in OtherCodes =>
          /\ step'.out = <<>>
          /\ step'.calls = <<>>
          /\ UNCHANGED monitorState]_vars

\* an unknown code handled while a write is pending and a flush scheduled
UnknownCodeWitness ==
    /\ step.kind = "onMessageReceived"
    /\ step.code \in OtherCodes
    /\ step.out = <<>>
    /\ timerActive
    /\ m_newData # EmptyMap
    /\ ~exitStatus.done

----------------------------------------------------------------------------
(* Properties of the endpoint and its Client (SpecEndpoint) *)

IsMessageEvent(e) == e.event = "messageReceived"
IsTerminalEvent(e) == e.event \in {"disconnected", "connectionFailed"}

\* the messages the Client has handled, in the order it handled them
HandledMessages ==
    LET h == SelectSeq(handled, IsMessageEvent)
    IN  [i \in DOMAIN h |-> h[i].message]

\* C11: the Client handles the messages in the order they were reassembled,
\* and once it has handled disconnected or connectionFailed it handles no
\* message: the terminal event is the last event it sees.
TerminalEventIsLast ==
    /\ Len(HandledMessages) <= Len(received)
    /\ HandledMessages = SubSeq(received, 1, Len(HandledMessages))
    /\ \A i \in DOMAIN handled : IsTerminalEvent(handled[i]) => i = Len(handled)

\* C12: an endpoint emits connectionFailed at most once and only from
\* Connecting, disconnected at most once and only from Ready, never both, and
\* has emitted one of them whenever it is no longer Connecting or Ready.
ExactlyOneTerminalEvent ==
    /\ [](/\ connState \in {"Connecting", "Ready"} => signals = <<>>
          /\ connState = "Failed" => signals = << "connectionFailed" >>
          /\ connState = "Closed" => signals = << "disconnected" >>)
    /\ [][signals' # signals =>
             /\ signals = <<>>
             /\ connState = "Connecting" => signals' = << "connectionFailed" >>
             /\ connState = "Ready" => signals' = << "disconnected" >>
             /\ connState \in {"Connecting", "Ready"}]_vars

\* close() called again on an endpoint that the peer's close had already
\* taken to Closed
ExactlyOneTerminalEventWitness ==
    /\ step.kind = "close"
    /\ step.state = "Closed"
    /\ step.signals = 1
    /\ closeRequested
    /\ signals = << "disconnected" >>

\* C15: a stream that ends inside a frame yields no message for that frame:
\* every message emitted, posted or handled is one whose frame arrived in
\* full; the endpoint is then Closed with disconnected emitted, and nothing
\* is left of the incomplete frame.
TruncatedStreamYieldsNoMessage ==
    /\ Len(received) <= Len(sentMessages)
    /\ received = SubSeq(sentMessages, 1, Len(received))
    /\ EndOffset(Len(received)) <= fed
    /\ HandledMessages \o posted = received
    /\ step.kind = "streamEnds" =>
          /\ connState = "Closed"
          /\ signals = << "disconnected" >>
    /\ connState = "Closed" =>
          /\ m_message = <<>>
          /\ ~m_hasMessageLength
          /\ wire = <<>>

\* the stream ended after the length prefix of a frame and before its body
\* was complete
TruncatedStreamWitness ==
    /\ step.kind = "streamEnds"
    /\ connState = "Closed"
    /\ Len(received) < Len(sentMessages)
    /\ fed >= EndOffset(Len(received)) + 4
    /\ fed < EndOffset(Len(received) + 1)

\* C19: sendMessage on a Closed or Failed endpoint writes no bytes, leaves
\* the state as it is, emits no terminal event and runs no slot.
SendOnClosedIsNoOp ==
    step.kind = "sendMessage" /\ step.state \in {"Closed", "Failed"} =>
        /\ connState = step.state
        /\ Len(written) = step.written
        /\ Len(signals) = step.signals
        /\ Len(handled) = step.handled

\* a frame was sent while Ready, and sendMessage was called again after the
\* endpoint was Closed
SendOnClosedWitness ==
    /\ step.kind = "sendMessage"
    /\ step.state = "Closed"
    /\ written = << Serialize([code |-> 1, payload |-> <<65>>]) >>
    /\ signals = << "disconnected" >>

\* C20: once close() has been called the Client is delivered no further
\* message, not even one reassembled before the close; isClosed() holds from
\* then on; and no caller stays blocked in waitForReadyRead.
CloseStopsDelivery ==
    /\ \A i \in DOMAIN handled : IsMessageEvent(handled[i]) => ~handled[i].afterClose
    /\ closeRequested => IsClosed /\ ~waiting

----------------------------------------------------------------------------
(* Properties of the socket ids (SpecIds) *)

\* C21: every socket gets at construction an id greater than every id handed
\* out before, whatever thread constructs it and whatever becomes of it; no
\* two sockets share an id, and a socket keeps its id.
SocketIdsUniqueAndMonotonic ==
    /\ [](/\ \A i, j \in DOMAIN sockets : i < j => sockets[i].id < sockets[j].id
          /\ \A i \in DOMAIN sockets : sockets[i].id <= lastSocketId)
    /\ [][/\ lastSocketId' >= lastSocketId
          /\ \A i \in DOMAIN sockets : sockets'[i].id = sockets[i].id]_vars

\* three sockets constructed by two threads; the first failed, the second
\* was closed before the third was constructed
SocketIdsWitness ==
    /\ Len(sockets) = 3
    /\ sockets[1].state = "Failed"
    /\ sockets[2].state = "Closed"
    /\ sockets[1].thread # sockets[3].thread
    /\ sockets[3].id > sockets[2].id

----------------------------------------------------------------------------
(* Properties of the deferred write-back *)

\* C22: whenever a mode is among the pending writes, then, unless the monitor
\* exits, a flush applies that mode's snapshot and removes it, though no
\* further message arrives and though commands keep restarting the timer; a
\* pending write always has the timer running.
PendingWriteIsEventuallyApplied ==
    /\ [](m_newData # EmptyMap /\ ~exitStatus.done => timerActive)
    /\ \A mode \in WriteModes :
          (mode \in DOMAIN m_newData) ~>
              \/ exitStatus.done
              \/ /\ IsFlush
                 /\ Len(CallsFor(mode)) = 1
                 /\ mode \notin DOMAIN m_newData

\* a flush applied the clipboard's snapshot after a second command had
\* restarted the timer
PendingWriteWitness ==
    /\ IsFlush
    /\ step.batch[Clipboard].count = 2
    /\ Len(CallsFor(Clipboard)) = 1
    /\ Clipboard \notin DOMAIN m_newData
    /\ ~timerActive

\* C23: one flush is pending at most, and no batch is applied twice. A
\* command leaves the timer running, started once or again; a flush runs only
\* for a running timer and leaves it stopped; and a flush calls setData for a
\* mode at most once, only when a command for that mode was handled since the
\* previous flush, and with that command's snapshot, whether or not setData
\* raised a change event at once.
FlushRunsOncePerBatch ==
    /\ [](IsFlush =>
            /\ ~timerActive
            /\ \A i \in DOMAIN step.calls : step.calls[i].mode \in WriteModes
            /\ \A mode \in WriteModes :
                  /\ Len(CallsFor(mode)) <= 1
                  /\ Len(CallsFor(mode)) = 1 =>
                        /\ step.batch[mode].count >= 1
                        /\ CallsFor(mode)[1].data = step.batch[mode].latest)
    /\ [][/\ IsChangeCommand' => timerActive' /\ step'.calls = <<>>
          /\ IsFlush' /\ step' # step => timerActive]_vars

\* a flush found two commands for the clipboard, called setData once, and
\* the capability raised the change event inside the call
FlushRunsOncePerBatchWitness ==
    /\ IsFlush
    /\ step.batch[Clipboard].count = 2
    /\ Len(CallsFor(Clipboard)) = 1
    /\ CallsFor(Clipboard)[1].sync
    /\ CallsFor(Clipboard)[1].invoked = 1
    /\ step.batch[Selection].count = 0
    /\ CallsFor(Selection) = <<>>

\* the modes setData was called for in the last step
CalledModes == {step.calls[i].mode : i \in DOMAIN step.calls}

\* C24: a flush calls setData once for each mode among the pending writes,
\* with that mode's snapshot, and for no other mode, and leaves no pending
\* write; the pending writes are always for the clipboard or the selection.
FlushAppliesPendingModes ==
    /\ [](DOMAIN m_newData \subseteq WriteModes)
    /\ [][IsFlush' /\ step' # step =>
             /\ CalledModes' = DOMAIN m_newData
             /\ Len(step'.calls) = Cardinality(DOMAIN m_newData)
             /\ \A i \in DOMAIN step'.calls :
                   step'.calls[i].data = m_newData[step'.calls[i].mode]
             /\ m_newData' = EmptyMap]_vars

\* a flush applied a pending write for each of the two modes
FlushAppliesPendingModesWitness ==
    /\ IsFlush
    /\ Len(step.calls) = 2
    /\ CalledModes = WriteModes
    /\ m_newData = EmptyMap

----------------------------------------------------------------------------
(* Properties of the change handler's outcome (SpecTagging) *)

\* C25: a change event whose snapshot is not a duplicate sends exactly one
\* ClipboardChanged, and the stored snapshot becomes the one sent: the
\* reported entries plus the mode tag and window title added; a duplicate
\* sends nothing and leaves the stored snapshot as it was.
ChangeEventOutcome ==
    cmp.done =>
        IF DuplicateBySpec(cmp.data, cmp.lastData)
        THEN /\ cmp.out = <<>>
             /\ cmp.stored = cmp.lastData
        ELSE /\ cmp.out = << Message(MonitorClipboardChanged, serializeData(cmp.stored)) >>
             /\ \A f \in DOMAIN cmp.data : f \in DOMAIN cmp.stored /\ cmp.stored[f] = cmp.data[f]
             /\ DOMAIN cmp.stored \ DOMAIN cmp.data \subseteq {mimeClipboardMode, mimeWindowTitle}
             /\ cmp.mode # Clipboard => mimeClipboardMode \in DOMAIN cmp.stored
             /\ cmp.win # NoWindow /\ DOMAIN cmp.data = {mimeText} =>
                   mimeWindowTitle \in DOMAIN cmp.stored

\* the selection reported a new text: the stored snapshot is the text with
\* the mode tag and the window title, which is what was sent
ChangeEventOutcomeWitness ==
    /\ cmp.done
    /\ cmp.mode = Selection
    /\ cmp.data = [f \in {mimeText} |-> "X"]
    /\ cmp.lastData = EmptyMap
    /\ cmp.win = "Editor"
    /\ Len(cmp.out) = 1
    /\ DOMAIN cmp.stored = {mimeText, mimeClipboardMode, mimeWindowTitle}

----------------------------------------------------------------------------
(* Further properties of the change detection (SpecDedup) *)

\* the non-metadata formats of a snapshot
ContentFormats(map) == {f \in DOMAIN map : ~IsMetadata(f)}

\* data is lastData with the value of at least one non-metadata format
\* emptied, the format itself kept, and nothing else of the content changed
OnlyValuesCleared(data, lastData) ==
    /\ ContentFormats(data) = ContentFormats(lastData)
    /\ \A f \in ContentFormats(data) :
          data[f] = lastData[f] \/ (lastData[f] # "" /\ data[f] = "")
    /\ \E f \in ContentFormats(data) : lastData[f] # "" /\ data[f] = ""

\* C26: when the reported snapshot has the non-metadata formats of the stored
\* one and differs from it only in values that went from non-empty to empty,
\* it is a duplicate: nothing is sent and the stored snapshot keeps the old
\* values.
ClearedValueIsDuplicate ==
    cmp.done /\ OnlyValuesCleared(cmp.data, cmp.lastData)
        => /\ cmp.same
           /\ cmp.out = <<>>
           /\ cmp.stored = cmp.lastData
           /\ \E f \in ContentFormats(cmp.stored) : cmp.stored[f] # ""

\* {text: "X", html: "Y"} stored, {text: "X", html: ""} reported
ClearedValueWitness ==
    /\ cmp.done
    /\ cmp.lastData = [f \in {mimeText, mimeHtml} |-> IF f = mimeText THEN "X" ELSE "Y"]
    /\ cmp.data = [f \in {mimeText, mimeHtml} |-> IF f = mimeText THEN "X" ELSE ""]
    /\ cmp.out = <<>>
    /\ cmp.stored = cmp.lastData

\* C30: with nothing stored for the mode, a change event is forwarded exactly
\* when the reported snapshot has a non-metadata format with a non-empty
\* value; an empty snapshot, one of metadata only, or one of empty values
\* only is suppressed and nothing is stored.
FirstObservation ==
    cmp.done /\ cmp.lastData = EmptyMap =>
        LET hasContent == \E f \in ContentFormats(cmp.data) : cmp.data[f] # ""
        IN  /\ Len(cmp.out) = (IF hasContent THEN 1 ELSE 0)
            /\ hasContent => /\ cmp.out[1].code = MonitorClipboardChanged
                             /\ cmp.stored # EmptyMap
                             /\ Content(cmp.stored) = Content(cmp.data)
            /\ ~hasContent => cmp.stored = EmptyMap

\* nothing stored, and a snapshot with an empty text and a note is reported
FirstObservationWitness ==
    /\ cmp.done
    /\ cmp.lastData = EmptyMap
    /\ cmp.data = [f \in {mimeText, mimeItemNotes} |-> IF f = mimeText THEN "" ELSE "Y"]
    /\ cmp.out = <<>>
    /\ cmp.stored = EmptyMap

----------------------------------------------------------------------------
(* Properties of the stored snapshots and the subscription (Spec) *)

\* a ClipboardChanged message among the messages of the last step
ForwardedInStep == \E i \in DOMAIN step.out : step.out[i].code = MonitorClipboardChanged

\* C28: the stored snapshot of a mode changes only when the slot runs for a
\* change event of that mode whose snapshot is not a duplicate, be the event
\* raised by the capability on its own or inside a setData call of the flush.
\* Handling any message changes no stored snapshot, and a flush whose setData
\* raises no change event changes none: a written snapshot does not become
\* the stored one by being written.
StoredSnapshotChangesOnlyOnChangeEvent ==
    [][/\ step'.kind = "onMessageReceived" => m_lastData' = m_lastData
       /\ \A m \in Modes :
             m_lastData'[m] # m_lastData[m] =>
                \/ /\ IsChanged'
                   /\ step'.mode = m
                   /\ step'.invoked >= 1
                   /\ ~DuplicateBySpec(step'.data, m_lastData[m])
                   /\ Len(step'.out) = 1
                \/ /\ IsFlush'
                   /\ \E i \in DOMAIN step'.calls :
                         /\ step'.calls[i].mode = m
                         /\ step'.calls[i].sync
                         /\ step'.calls[i].invoked >= 1
                         /\ ~DuplicateBySpec(step'.calls[i].seen, m_lastData[m])
                         /\ Len(step'.calls[i].out) = 1]_vars

\* a flush wrote {text: "Y"} to the clipboard without a change event being
\* raised in the call, and the stored snapshot still holds the text "X"
StoredSnapshotWitness ==
    /\ IsFlush
    /\ Len(CallsFor(Clipboard)) = 1
    /\ ~CallsFor(Clipboard)[1].sync
    /\ CallsFor(Clipboard)[1].data = TextY
    /\ mimeText \in DOMAIN m_lastData[Clipboard]
    /\ m_lastData[Clipboard][mimeText] = "X"
    /\ m_lastData[Clipboard] = CallsFor(Clipboard)[1].before

\* C29: the monitor starts without a subscription to change events and gets
\* one only by handling PushSettings; as long as it has none, a change of the
\* clipboard runs no slot, no ClipboardChanged is sent and no snapshot is
\* stored.
NoForwardBeforeSettings ==
    /\ changedConnections = 0
    /\ [][changedConnections' # changedConnections => IsMessage(MonitorSettings)']_vars
    /\ [](changedConnections = 0 =>
            /\ ~ForwardedInStep
            /\ m_lastData = [m \in Modes |-> EmptyMap]
            /\ IsChanged => step.invoked = 0 /\ step.out = <<>>)

\* the clipboard changed while a write command was pending and no
\* PushSettings had been handled
NoForwardBeforeSettingsWitness ==
    /\ IsChanged
    /\ changedConnections = 0
    /\ step.invoked = 0
    /\ step.out = <<>>
    /\ m_newData # EmptyMap
    /\ m_lastData[Clipboard] = EmptyMap

============================================================================
